---- MODULE Spec2Model ----
(***************************************************************************)
(* Model of the ProtoMAML training code of meta-learning-emotion-detection: *)
(*   - the episodic batch samplers of data/utils/data_loader.py             *)
(*     (StratifiedLoader, AdaptiveNKShotLoader),                            *)
(*   - the ProtoMAMLSeqTransformer object of                                *)
(*     models/protomaml_seqtransformer.py (adapt / forward / backward),     *)
(*   - the episode loop of train() in ProtoMAML_train_restarts.py.          *)
(*                                                                         *)
(* Numbers are fixed-point integers: one unit is the resolution of the     *)
(* model, and every quotient is rounded toward zero.                       *)
(***************************************************************************)
EXTENDS Integers, Sequences, FiniteSets, TLC

VARIABLES
    \* ---- the samplers (data/utils/data_loader.py) ----
    loader,            \* which sampler object exists: "stratified", "adaptive", "none"
    dataset,           \* the dataset argument: class id -> list of examples
    k,                 \* StratifiedLoader.k
    data,              \* StratifiedLoader.data: class id -> list, or None
    max_support_size,  \* AdaptiveNKShotLoader.max_support_size
    subset_classes,    \* AdaptiveNKShotLoader.subset_classes
    temp_map,          \* AdaptiveNKShotLoader.temp_map, by its truth value
    out,               \* what the last __next__ call returned or raised
    calls,             \* number of __next__ calls made on the loader
    \* ---- the ProtoMAMLSeqTransformer object (models/protomaml_seqtransformer.py) ----
    n_inner,           \* config['n_inner']
    n_outer,           \* config['n_outer']
    clip_val,          \* config['clip_val']
    model_shared,      \* the shared encoder: parameter values and gradient buffers
    model_task,        \* the episode's copy of the encoder, or None
    W_task,            \* task classifier weights (one row per prototype), or None
    b_task,            \* task classifier biases, or None
    b,                 \* whether the attribute `b` has been set on the model
    fwd,               \* what the last forward() call returned or raised
    op,                \* the last operation performed on the model
    ops,               \* number of operations performed on the model
    \* ---- history kept for the properties ----
    adapted,           \* an adapt() completed since construction or the last checkpoint save
    accum,             \* sum of (g_task + g_shared) / n_outer since the buffers were cleared
    clipped,           \* a backward() since the buffers were cleared rescaled them
    support_labels,    \* the labels handed to the adapt() that set the task parameters
    grad_fn,           \* the encoder the autograd graph of W_task, b_task leads back to
    \* ---- train() (ProtoMAML_train_restarts.py) ----
    pc,                \* where train() stands
    episode,           \* the loop variable of the episode loop
    outer,             \* the iteration of `for _ in range(config['n_outer'])`
    rounds,            \* adapt/forward rounds done by the running meta_evaluate
    eval_every_n,      \* config['eval_every_n']
    macro_f1,          \* result of the last meta_evaluate
    best_macro_f1,     \* trainer variable
    curr_patience,     \* trainer variable
    n_backward,        \* backward() calls made in the current episode
    n_step,            \* shared_optimizer.step() calls made by this run
    n_zero,            \* model_shared.zero_grad() calls made by this run
    max_episodes,      \* config['max_episodes']
    patience,          \* config['patience']
    min_episodes,      \* config['min_episodes']
    manual_crash,      \* config['manual_crash']
    bad_evals,         \* history: evaluations in a row that lowered curr_patience
    init_episode,      \* trainer variable: first episode of this run
    best_files,        \* the best_model files of the checkpoint directory
    latest_files,      \* the latest_model files of the checkpoint directory
    trainer_pickle     \* latest_trainer.pickle, or None while it does not exist

loaderVars == <<loader, dataset, k, data, max_support_size, subset_classes, temp_map, out, calls>>

modelVars == <<n_inner, n_outer, clip_val, model_shared, model_task, W_task, b_task, b,
               fwd, op, ops, adapted, accum, clipped, support_labels, grad_fn>>

trainVars == <<pc, episode, outer, rounds, eval_every_n, macro_f1, best_macro_f1,
               curr_patience, n_backward, n_step, n_zero,
               max_episodes, patience, min_episodes, manual_crash, bad_evals,
               init_episode, best_files, latest_files, trainer_pickle>>

vars == <<loader, dataset, k, data, max_support_size, subset_classes, temp_map, out, calls,
          n_inner, n_outer, clip_val, model_shared, model_task, W_task, b_task, b,
          fwd, op, ops, adapted, accum, clipped, support_labels, grad_fn,
          pc, episode, outer, rounds, eval_every_n, macro_f1, best_macro_f1,
          curr_patience, n_backward, n_step, n_zero,
          max_episodes, patience, min_episodes, manual_crash, bad_evals,
          init_episode, best_files, latest_files, trainer_pickle>>

-----------------------------------------------------------------------------
(* Bounds of the sampler model *)

\* longest class list of a dataset handed to StratifiedLoader
MaxLen == 3
\* largest shot count k of a StratifiedLoader
MaxK == 2
\* number of __next__ calls followed on one loader
MaxCalls == 2
\* longest class list, and most examples, of a dataset handed to
\* AdaptiveNKShotLoader
MaxLenA == 3
MaxExamplesA == 6

-----------------------------------------------------------------------------
(* Python lists *)

Min(x, y) == IF x <= y THEN x ELSE y
Max(x, y) == IF x >= y THEN x ELSE y

\* list[:j] for any integer j (a negative j counts from the end)
SliceTo(list, j) ==
    LET n == Len(list)
        e == IF j >= 0 THEN Min(j, n) ELSE Max(0, n + j)
    IN  SubSeq(list, 1, e)

\* list[j:] for any integer j
SliceFrom(list, j) ==
    LET n == Len(list)
        e == IF j >= 0 THEN Min(j, n) ELSE Max(0, n + j)
    IN  SubSeq(list, e + 1, n)

Range(list) == {list[i] : i \in 1..Len(list)}

\* the orderings of a finite set: what random.shuffle can leave
RECURSIVE Perms(_)
Perms(S) ==
    IF S = {} THEN {<<>>}
    ELSE UNION {{<<x>> \o p : p \in Perms(S \ {x})} : x \in S}

\* the example lists of a dataset: class c holds lens[c] distinct examples
DatasetOf(lens) ==
    [c \in DOMAIN lens |-> [i \in 1..lens[c] |-> [labels |-> c, text |-> <<c, i>>]]]

\* a Python reference to a list, or None
Some(list) == [isNone |-> FALSE, list |-> list]
None == [isNone |-> TRUE, list |-> <<>>]

\* the labels of a dataset in key order
RECURSIVE SortedSeq(_)
SortedSeq(S) ==
    IF S = {} THEN <<>>
    ELSE LET m == CHOOSE x \in S : \A y \in S : x <= y
         IN  <<m>> \o SortedSeq(S \ {m})

-----------------------------------------------------------------------------
(* The ProtoMAMLSeqTransformer object: parameters, gradients, prototypes *)

\* largest magnitude of one gradient entry handed back by autograd
MaxGrad == 1
\* number of operations followed on a model object used directly
MaxOps == 4

\* the encoder's parameters; the ones with requires_grad are trainable
Params == {1, 2, 3}
Trainable == {1, 2}
\* the values of config['n_inner'], config['n_outer'], config['clip_val']
NInnerValues == {0, 2}
NOuterValues == {1, 2}
ClipValues == {0, 2}
\* meta_lr of the shared SGD optimizer, in units
MetaLr == 1

\* the gradients autograd returns for the shared encoder's parameters
GradVecs ==
    {[p \in Trainable |-> 0], [p \in Trainable |-> MaxGrad],
     [p \in Trainable |-> IF p = 1 THEN -MaxGrad ELSE MaxGrad]}
\* the gradients autograd returns for the task copy's parameters
TaskGradVecs ==
    {[p \in Trainable |-> 0], [p \in Trainable |-> IF p = 1 THEN -MaxGrad ELSE MaxGrad]}

\* a gradient buffer: None, or a tensor
NoGrad == [isNone |-> TRUE, v |-> 0]
Grad(x) == [isNone |-> FALSE, v |-> x]
Cleared(g) == g.isNone \/ g.v = 0

\* quotient of floats, rounded toward zero
Div(a, d) == IF a >= 0 THEN a \div d ELSE -((-a) \div d)
Abs(a) == IF a >= 0 THEN a ELSE -a

\* the least r with r * r >= n: a norm rounded up to the unit
CeilSqrt(n) == CHOOSE r \in 0..n : r * r >= n /\ (r = 0 \/ (r - 1) * (r - 1) < n)

\* SeqTransformer(config): the freshly built shared encoder
NewEncoder ==
    [val |-> [p \in Params |-> 1], grad |-> [p \in Params |-> NoGrad]]

\* _get_updateable_parameters(model)
UpdateableParameters == Trainable

\* the squared global L2 norm of the gradients of `params`
RECURSIVE NormSq(_, _)
NormSq(grad, params) ==
    IF params = {} THEN 0
    ELSE LET q == CHOOSE x \in params : TRUE
         IN  (IF grad[q].isNone THEN 0 ELSE grad[q].v * grad[q].v)
             + NormSq(grad, params \ {q})

\* torch.nn.utils.clip_grad_norm_(params, max_norm): clip_coef =
\* max_norm / (total_norm + 1e-6), applied when it is below 1
\* (1e-6 is below the unit: total_norm + 1e-6 is total_norm rounded up)
ClipScales(grad, params, max_norm) == max_norm < CeilSqrt(NormSq(grad, params))
ClipGradNorm(grad, params, max_norm) ==
    LET total_norm == CeilSqrt(NormSq(grad, params)) IN
    IF max_norm < total_norm
    THEN [q \in DOMAIN grad |->
            IF q \in params /\ ~grad[q].isNone
            THEN Grad(Div(grad[q].v * max_norm, total_norm))
            ELSE grad[q]]
    ELSE grad

\* model.zero_grad(): buffers are zeroed in place or dropped, by torch version;
\* either way they are cleared
ZeroGrad(grad) == [q \in DOMAIN grad |-> NoGrad]

\* Python's None for the task model and the task tensors
NoTask == [isNone |-> TRUE, val |-> [p \in Params |-> 0], grad |-> [p \in Params |-> NoGrad]]
NoTensor == [isNone |-> TRUE, v |-> <<>>]
Tensor(v) == [isNone |-> FALSE, v |-> v]

\* the encoder's embedding of one input (hidden size 1)
Encode(val, x) == val[1] * x + val[2] + val[3]

\* the support sets handed to adapt(): the labels of its examples, class 0
\* among them; the model input of the j-th example is j
LabelIds == {0, 2}
SupportSizes == {1, 2}
Batches ==
    UNION {{[labels |-> l, input |-> [j \in 1..n |-> j]] :
               l \in {x \in [1..n -> LabelIds] : \E j \in 1..n : x[j] = 0}} :
              n \in SupportSizes}

\* the object before it exists: the state of a run that builds no model
NoModel ==
    /\ n_inner = 0
    /\ n_outer = 1
    /\ clip_val = 0
    /\ model_shared = NewEncoder
    /\ model_task = NoTask
    /\ W_task = NoTensor
    /\ b_task = NoTensor
    /\ b = FALSE
    /\ fwd = "none"
    /\ op = "none"
    /\ ops = 0
    /\ adapted = FALSE
    /\ accum = [p \in Trainable |-> 0]
    /\ clipped = FALSE
    /\ support_labels = <<>>
    /\ grad_fn = "None"

\* the checkpoint directory: a file name carries the episode and the macro F1
\* printed with {:5.2f}; a latest_model file holds the state dict
BestFile(ep, f1) == [episode |-> ep, f1 |-> f1]
LatestFile(ep, f1, state_dict) == [episode |-> ep, f1 |-> f1, state_dict |-> state_dict]
NoPickle == [isNone |-> TRUE, episode |-> 0, macro_f1 |-> 0, best_macro_f1 |-> 0,
             curr_patience |-> 0]
Pickle(ep, f1, best, pat) ==
    [isNone |-> FALSE, episode |-> ep, macro_f1 |-> f1, best_macro_f1 |-> best,
     curr_patience |-> pat]

\* train() not running
NoTrain ==
    /\ pc = "idle"
    /\ episode = 0
    /\ outer = 0
    /\ rounds = 0
    /\ eval_every_n = 1
    /\ macro_f1 = 0
    /\ best_macro_f1 = 0
    /\ curr_patience = 0
    /\ n_backward = 0
    /\ n_step = 0
    /\ n_zero = 0
    /\ max_episodes = 0
    /\ patience = 0
    /\ min_episodes = 0
    /\ manual_crash = 0
    /\ bad_evals = 0
    /\ init_episode = 0
    /\ best_files = {}
    /\ latest_files = {}
    /\ trainer_pickle = NoPickle

-----------------------------------------------------------------------------
(* StratifiedLoader *)

\* the class-id sets of the datasets a StratifiedLoader is built over
StratifiedClassSets == {{0}, {0, 1}}

\* the record of a __next__ call: the tuple returned or the exception raised
Returned(support_set, query_set, n, warned) ==
    [kind |-> "tuple", support |-> support_set, query |-> query_set,
     n_classes |-> n, warned |-> warned]
Raised(exc, n, warned) ==
    [kind |-> exc, support |-> <<>>, query |-> <<>>, n_classes |-> n, warned |-> warned]
NoCall == Raised("none", 0, FALSE)

\* StratifiedLoader.__init__: deepcopy the dataset, shuffle each class list
StratifiedInit ==
    /\ loader = "stratified"
    /\ \E cs \in StratifiedClassSets : \E lens \in [cs -> 1..MaxLen] :
         /\ dataset = DatasetOf(lens)
         /\ \E shuffle \in BOOLEAN :
              IF shuffle
              THEN data \in {d \in [cs -> UNION {{Some(p) : p \in Perms(Range(dataset[c]))} : c \in cs}] :
                                \A c \in cs : Range(d[c].list) = Range(dataset[c])}
              ELSE data = [c \in cs |-> Some(dataset[c])]
    /\ k \in 1..MaxK
    /\ max_support_size = 0
    /\ subset_classes = FALSE
    /\ temp_map = FALSE
    /\ out = NoCall
    /\ calls = 0

\* the value of the expression `list.extend(samples)`: extend works in place
\* and returns None
Extend(list, samples) == None

\* samples[:self.k] and samples[self.k:]
SupportShare(samples, kk) == SliceTo(samples, kk)
\* (a query share that starts one example early)
QueryShareOffByOne(samples, kk) == SliceFrom(samples, kk - 1)
QueryShare(samples, kk) == SliceFrom(samples, kk)

\* the loop `for c in self.labels` of StratifiedLoader.__next__; subscripting
\* None raises TypeError and leaves the loop
RECURSIVE StratifiedLoop(_, _, _, _, _)
StratifiedLoop(labels, d, kk, support_set, query_set) ==
    IF labels = <<>>
    THEN [kind |-> "tuple", data |-> d, support |-> support_set, query |-> query_set]
    ELSE LET c == Head(labels) IN
         IF d[c].isNone
         THEN [kind |-> "TypeError", data |-> d, support |-> <<>>, query |-> <<>>]
         ELSE LET samples == SliceTo(d[c].list, 2 * kk)
                  d2 == [d EXCEPT ![c] = Extend(SliceFrom(d[c].list, 2 * kk), samples)]
              IN  StratifiedLoop(Tail(labels), d2, kk,
                                 support_set \o SupportShare(samples, kk),
                                 query_set \o QueryShare(samples, kk))

\* StratifiedLoader.__next__
StratifiedNext ==
    /\ loader = "stratified"
    /\ calls < MaxCalls
    /\ LET r == StratifiedLoop(SortedSeq(DOMAIN data), data, k, <<>>, <<>>) IN
         /\ data' = r.data
         /\ out' = IF r.kind = "tuple"
                    THEN Returned(r.support, r.query, Cardinality(DOMAIN data), FALSE)
                    ELSE Raised(r.kind, Cardinality(DOMAIN data), FALSE)
    /\ calls' = calls + 1
    /\ UNCHANGED <<loader, dataset, k, max_support_size, subset_classes, temp_map>>
    /\ UNCHANGED modelVars
    /\ UNCHANGED trainVars

-----------------------------------------------------------------------------
(* AdaptiveNKShotLoader *)

\* the class-id sets of the datasets an AdaptiveNKShotLoader is built over
AdaptiveClassSets == {{0, 1, 2}, {0, 1, 2, 3}}
\* the values of max_support_size
MaxSupportSizes == {1, 4}
\* exp(alpha) for alpha uniform in [log 0.5, log 2], in halves: the ends 1/2 and 2
ExpAlphas == {1, 4}
\* beta = np.random.random(), in [0, 1), as <<numerator, denominator>>
Betas == {<<0, 1>>, <<3, 4>>}
\* the cap on a class's share in class_size_remaining
ClassShareCap == 100

RECURSIVE SumOver(_, _)
SumOver(f, n) == IF n = 0 THEN 0 ELSE f[n] + SumOver(f, n - 1)

RECURSIVE MinOver(_, _)
MinOver(f, n) == IF n = 1 THEN f[1] ELSE Min(f[n], MinOver(f, n - 1))

\* AdaptiveNKShotLoader.__init__: the dataset is kept by reference
AdaptiveInit ==
    /\ loader = "adaptive"
    /\ \E cs \in AdaptiveClassSets : \E lens \in [cs -> 1..MaxLenA] :
         /\ SumOver([i \in 1..Cardinality(cs) |-> lens[i - 1]], Cardinality(cs)) <= MaxExamplesA
         /\ dataset = DatasetOf(lens)
    /\ data = [c \in DOMAIN dataset |-> Some(dataset[c])]
    /\ k = 0
    /\ max_support_size \in MaxSupportSizes
    /\ subset_classes \in BOOLEAN
    /\ temp_map \in BOOLEAN
    /\ out = NoCall
    /\ calls = 0

\* the sequences of m distinct elements of S: np.random.choice(S, m, replace=False)
RECURSIVE Choice(_, _)
Choice(S, m) ==
    IF m = 0 THEN {<<>>}
    ELSE UNION {{<<x>> \o p : p \in Choice(S \ {x}, m - 1)} : x \in S}

\* Python's floor and ceiling of a quotient with a positive divisor
Floor(a, d) == a \div d
Ceil(a, d) == -((-a) \div d)

\* the values self.n_classes can take
NClasses(classes) ==
    IF Cardinality(classes) <= 3 \/ ~subset_classes
    THEN {Cardinality(classes)}
    ELSE 2..(Cardinality(classes) - 1)      \* np.random.randint excludes `high`

\* query_size: balanced, bounded by half of the smallest sampled class
QuerySize(class_lens, n) ==
    Min(max_support_size \div n, MinOver([i \in 1..n |-> Floor(class_lens[i], 2)], n))

\* (a support size without the cap)
SupportSizeUncapped(class_lens, n, query_size, beta) ==
    SumOver([i \in 1..n |->
                Ceil(beta[1] * Min(ClassShareCap, class_lens[i] - query_size), beta[2])], n)
\* support_size for beta = beta[1] / beta[2]
SupportSize(class_lens, n, query_size, beta) ==
    LET class_size_remaining ==
            SumOver([i \in 1..n |->
                        Ceil(beta[1] * Min(ClassShareCap, class_lens[i] - query_size), beta[2])], n)
    IN  Min(max_support_size, class_size_remaining)

\* k_c, the class specific shot counts, for exp(alpha) = w / 2
ClassK(class_lens, n, query_size, support_size, w) ==
    LET R == [i \in 1..n |-> w[i] * class_lens[i]]
        sumR == SumOver(R, n)
    IN  [i \in 1..n |->
            Min(Floor(R[i] * (support_size - n), sumR) + 1, class_lens[i] - query_size)]

\* the batch-specific label mapping: position in sorted(set(classes_sample))
TempLabel(classes_sample, c) ==
    Cardinality({x \in Range(classes_sample) : x < c})

\* the loop `for i, c in enumerate(classes_sample)`: every (support, query)
\* pair the random draws can produce
RECURSIVE AdaptiveLoop(_, _, _, _)
AdaptiveLoop(i, classes_sample, k_c, query_size) ==
    IF i > Len(classes_sample) THEN {[support |-> <<>>, query |-> <<>>]}
    ELSE LET c == classes_sample[i]
             relabel(s) == [j \in 1..Len(s) |->
                              [labels |-> IF temp_map THEN TempLabel(classes_sample, s[j].labels)
                                          ELSE s[j].labels,
                               text |-> s[j].text]]
         IN  {[support |-> SliceTo(relabel(sample), k_c[i]) \o rest.support,
               query |-> SliceFrom(relabel(sample), k_c[i]) \o rest.query] :
                 sample \in Choice(Range(dataset[c]), k_c[i] + query_size),
                 rest \in AdaptiveLoop(i + 1, classes_sample, k_c, query_size)}

\* AdaptiveNKShotLoader.__next__
AdaptiveNext ==
    /\ loader = "adaptive"
    /\ calls = 0     \* __next__ writes nothing a later call reads differently
    /\ \E n \in NClasses(DOMAIN dataset) :
       \E classes_sample \in Choice(DOMAIN dataset, n) :
       \E beta \in Betas :
       \E w \in [1..n -> ExpAlphas] :
         LET class_lens == [i \in 1..n |-> Len(dataset[classes_sample[i]])]
             query_size == QuerySize(class_lens, n)
             support_size == SupportSize(class_lens, n, query_size, beta)
             k_c == ClassK(class_lens, n, query_size, support_size, w)
             warned == (query_size = 0)
         IN  IF \E i \in 1..n : k_c[i] + query_size < 0
             THEN out' = Raised("ValueError", n, warned)    \* np.random.choice: negative size
             ELSE \E batch \in AdaptiveLoop(1, classes_sample, k_c, query_size) :
                      out' = Returned(batch.support, batch.query, n, warned)
    /\ temp_map' = temp_map      \* a non-empty dict is as true as True
    /\ calls' = calls + 1
    /\ UNCHANGED <<loader, dataset, k, data, max_support_size, subset_classes>>
    /\ UNCHANGED modelVars
    /\ UNCHANGED trainVars

InitLoader == (StratifiedInit \/ AdaptiveInit) /\ NoModel /\ NoTrain

NextLoader == StratifiedNext \/ AdaptiveNext

SpecLoader == InitLoader /\ [][NextLoader]_vars

-----------------------------------------------------------------------------
(* ProtoMAMLSeqTransformer: adapt, forward, backward *)

\* ProtoMAMLSeqTransformer.__init__
ModelInit ==
    /\ n_inner \in NInnerValues
    /\ n_outer \in NOuterValues
    /\ clip_val \in ClipValues
    /\ model_shared = NewEncoder
    /\ model_task = NoTask
    /\ W_task = NoTensor
    /\ b_task = NoTensor
    /\ b = FALSE
    /\ fwd = "none"
    /\ op = "init"
    /\ adapted = FALSE
    /\ accum = [p \in Trainable |-> 0]
    /\ clipped = FALSE
    /\ support_labels = <<>>
    /\ grad_fn = "None"

\* torch.mean(y[labels == i], dim=0) with y the embeddings of `val`
RECURSIVE SumEmbeddings(_, _, _, _, _)
SumEmbeddings(val, labels, input, i, j) ==
    IF j = 0 THEN 0
    ELSE (IF labels[j] = i THEN Encode(val, input[j]) ELSE 0)
         + SumEmbeddings(val, labels, input, i, j - 1)
MeanEmbedding(val, labels, input, i) ==
    Div(SumEmbeddings(val, labels, input, i, Len(labels)),
        Cardinality({j \in 1..Len(labels) : labels[j] = i}))

\* (one prototype per support example)
GenerateProtoypesPerExample(labels, input) ==
    [r \in 1..Len(labels) |-> MeanEmbedding(model_shared.val, labels, input, labels[r])]
\* _generate_protoypes: one prototype per value of torch.unique(labels), in
\* ascending order, from the embeddings of model_shared
GenerateProtoypes(labels, input) ==
    LET unique == SortedSeq(Range(labels))
    IN  [r \in 1..Len(unique) |-> MeanEmbedding(model_shared.val, labels, input, unique[r])]

\* generate_clf_weights: W_init = 2 * prototypes, b_init = -||prototypes||_2
GenerateClfWeights(labels, input) ==
    LET prototypes == GenerateProtoypes(labels, input)
    IN  [W_init |-> [r \in DOMAIN prototypes |-> 2 * prototypes[r]],
         b_init |-> [r \in DOMAIN prototypes |-> -Abs(prototypes[r])]]

\* (a clone that is made once and then kept)
DeepCopyOnce(encoder) ==
    IF model_task.isNone
    THEN [isNone |-> FALSE, val |-> encoder.val, grad |-> [p \in Params |-> NoGrad]]
    ELSE model_task
\* deepcopy(self.model_shared): new parameters with the same values; a
\* Parameter's deep copy carries no gradient
DeepCopy(encoder) ==
    [isNone |-> FALSE, val |-> encoder.val, grad |-> [p \in Params |-> NoGrad]]

\* the loop `for i in range(self.n_inner)` of adapt(), on the gradient buffers
\* of the task model: task_grads[i] is what autograd returns at step i
RECURSIVE InnerLoop(_, _, _)
InnerLoop(grad, task_grads, i) ==
    IF i > Len(task_grads) THEN grad
    ELSE LET stored == [p \in Params |->
                           IF p \in UpdateableParameters THEN Grad(task_grads[i][p])
                           ELSE grad[p]]
             after == IF clip_val > 0
                      THEN ClipGradNorm(stored, UpdateableParameters, clip_val)
                      ELSE stored
         IN  InnerLoop(after, task_grads, i + 1)

\* (the detached difference alone)
StraightThroughDelta(init, current) ==
    [r \in DOMAIN init |-> current[r] - init[r]]
\* init + (current - init).detach(), elementwise
StraightThrough(init, current) ==
    [r \in DOMAIN init |-> init[r] + (current[r] - init[r])]

\* (a test of the bias alone)
NoTaskBias == b_task.isNone
\* the test at the head of forward()
NoTaskSpecificModel == W_task.isNone \/ b_task.isNone

\* (prototypes taken from the embeddings of the task copy)
ProtoypeEncoderIsCopy == "model_task"
\* the encoder _generate_protoypes runs on the support set: self.model_shared
ProtoypeEncoder == "model_shared"

\* (an inner loop whose optimizers step)
InnerUpdatesSGD(val, task_grads) ==
    [p \in DOMAIN val |->
        IF p \in UpdateableParameters /\ Len(task_grads) > 0
        THEN val[p] - task_grads[Len(task_grads)][p]
        ELSE val[p]]
\* the parameter values after the inner loop: task_optimizer.step() and
\* output_optimizer.step() are commented out, nothing is updated
InnerUpdates(val, task_grads) == val

\* (an inner loop run on the parameters of the shared encoder)
InnerLoopOnShared == "model_shared"
\* the model whose parameters the inner loop takes gradients of and stores
\* them on: self._get_updateable_parameters(self.model_task)
InnerLoopModel == "model_task"

\* adapt(labels, model_input)
Adapt(batch, task_grads) ==
    LET copy == DeepCopy(model_shared)
        fresh == [copy EXCEPT !.grad = ZeroGrad(copy.grad)]
        init == GenerateClfWeights(batch.labels, batch.input)
        W_detached == init.W_init
        b_detached == init.b_init
    IN  /\ IF InnerLoopModel = "model_task"
           THEN /\ model_task' = [fresh EXCEPT
                                     !.grad = InnerLoop(fresh.grad, task_grads, 1),
                                     !.val = InnerUpdates(fresh.val, task_grads)]
                /\ model_shared' = model_shared
           ELSE /\ model_task' = fresh
                /\ model_shared' = [model_shared EXCEPT
                                       !.grad = InnerLoop(model_shared.grad, task_grads, 1)]
        /\ W_task' = Tensor(StraightThrough(init.W_init, W_detached))
        /\ b_task' = Tensor(StraightThrough(init.b_init, b_detached))
        /\ fwd' = IF Len(task_grads) > 0 THEN "logits" ELSE fwd
        /\ op' = "adapt"
        /\ adapted' = TRUE
        /\ support_labels' = batch.labels
        /\ grad_fn' = ProtoypeEncoder
        /\ UNCHANGED <<b, accum, clipped>>

\* forward(model_input)
Forward ==
    /\ fwd' = IF NoTaskSpecificModel THEN "ValueError"
              ELSE IF model_task.isNone THEN "TypeError"
              ELSE "logits"
    /\ op' = "forward"
    /\ UNCHANGED <<model_shared, model_task, W_task, b_task, b, adapted, accum, clipped,
                   support_labels, grad_fn>>

\* (g_shared + g_task).detach() / self.n_outer
OuterGrad(g_task, g_shared, p) == Div(g_shared[p] + g_task[p], n_outer)

\* (an accumulation that overwrites the buffer)
AccumulateOverwriting(grad, g_task, g_shared) ==
    [p \in Params |->
        IF p \in UpdateableParameters
        THEN Grad(OuterGrad(g_task, g_shared, p))
        ELSE grad[p]]
\* the accumulation loop of backward()
Accumulate(grad, g_task, g_shared) ==
    [p \in Params |->
        IF p \in UpdateableParameters
        THEN IF grad[p].isNone
             THEN Grad(OuterGrad(g_task, g_shared, p))
             ELSE Grad(grad[p].v + OuterGrad(g_task, g_shared, p))
        ELSE grad[p]]

\* (accumulation with the clipping left out)
ClipSharedNever(grad) == grad
\* the clipping at the end of backward()
ClipShared(grad) ==
    IF clip_val > 0 THEN ClipGradNorm(grad, UpdateableParameters, clip_val) ELSE grad

\* backward(loss): the loss comes from the logits of forward()
Backward(g_task, g_shared) ==
    /\ fwd = "logits"
    /\ ~model_task.isNone
    /\ LET accumulated == Accumulate(model_shared.grad, g_task, g_shared) IN
         /\ model_shared' = [model_shared EXCEPT !.grad = ClipShared(accumulated)]
         /\ clipped' = (clipped \/ ClipShared(accumulated) # accumulated)
    /\ accum' = [p \in Trainable |-> accum[p] + Div(g_shared[p] + g_task[p], n_outer)]
    /\ op' = "backward"
    /\ UNCHANGED <<model_task, W_task, b_task, b, fwd, adapted, support_labels, grad_fn>>

\* shared_optimizer.step(): SGD on every parameter that has a gradient
OptimizerStep ==
    /\ model_shared' =
          [model_shared EXCEPT !.val =
              [p \in Params |->
                  IF model_shared.grad[p].isNone THEN model_shared.val[p]
                  ELSE model_shared.val[p] - MetaLr * model_shared.grad[p].v]]
    /\ op' = "step"
    /\ UNCHANGED <<model_task, W_task, b_task, b, fwd, adapted, accum, clipped,
                   support_labels, grad_fn>>

\* model.model_shared.zero_grad(); model.model_task.zero_grad()
ZeroGrads ==
    /\ ~model_task.isNone
    /\ model_shared' = [model_shared EXCEPT !.grad = ZeroGrad(model_shared.grad)]
    /\ model_task' = [model_task EXCEPT !.grad = ZeroGrad(model_task.grad)]
    /\ accum' = [p \in Trainable |-> 0]
    /\ clipped' = FALSE
    /\ op' = "zero_grad"
    /\ UNCHANGED <<W_task, b_task, b, fwd, adapted, support_labels, grad_fn>>

\* saving the best model: model.model_task, model.W_task, model.b = None, None, None
SaveBest ==
    /\ model_task' = NoTask
    /\ W_task' = NoTensor
    /\ b' = TRUE
    /\ adapted' = FALSE
    /\ support_labels' = <<>>
    /\ grad_fn' = "None"
    /\ op' = "save_best"
    /\ UNCHANGED <<model_shared, b_task, fwd, accum, clipped>>

\* saving the latest model: model.model_task, model.W_task, model.b_task = None, None, None
SaveLatest ==
    /\ model_task' = NoTask
    /\ W_task' = NoTensor
    /\ b_task' = NoTensor
    /\ adapted' = FALSE
    /\ support_labels' = <<>>
    /\ grad_fn' = "None"
    /\ op' = "save_latest"
    /\ UNCHANGED <<model_shared, b, fwd, accum, clipped>>

\* no sampler object: the state of a run that drives the model directly
NoLoader ==
    /\ loader = "none"
    /\ dataset = <<>>
    /\ k = 0
    /\ data = <<>>
    /\ max_support_size = 0
    /\ subset_classes = FALSE
    /\ temp_map = FALSE
    /\ out = NoCall
    /\ calls = 0

\* the gradients autograd can hand adapt() over its n_inner steps
InnerGrads == [1..n_inner -> TaskGradVecs]

InitModel == ModelInit /\ ops = 0 /\ NoLoader /\ NoTrain

\* a client calling the object's methods in any order
Called ==
    /\ ops < MaxOps
    /\ ops' = ops + 1
    /\ UNCHANGED <<n_inner, n_outer, clip_val>>
    /\ UNCHANGED loaderVars
    /\ UNCHANGED trainVars

CallAdapt == Called /\ \E batch \in Batches, task_grads \in InnerGrads : Adapt(batch, task_grads)
CallForward == Called /\ Forward
CallBackward ==
    Called /\ \E g_task \in TaskGradVecs, g_shared \in GradVecs : Backward(g_task, g_shared)
CallOptimizerStep == Called /\ OptimizerStep
CallZeroGrads == Called /\ ZeroGrads
CallSaveBest == Called /\ SaveBest
CallSaveLatest == Called /\ SaveLatest

NextModel ==
    \/ CallAdapt
    \/ CallForward
    \/ CallBackward
    \/ CallOptimizerStep
    \/ CallZeroGrads
    \/ CallSaveBest
    \/ CallSaveLatest

SpecModel == InitModel /\ [][NextModel]_vars

-----------------------------------------------------------------------------
(* train(): the episode loop *)

\* config['max_episodes']
MaxEpisodes == 2
\* adapt/forward rounds of one meta_evaluate: tasks times n_eval_per_task
EvalRounds == 1

\* the values of config['eval_every_n'] and of the macro F1 meta_evaluate returns
EvalEveryValues == {1, 2}
\* macro F1 is a percentage; the model counts it in hundredths: 5.00, 20.25, 20.50
F1Scale == 100
F1Values == {500, 2025, 2050}
\* the values of config['patience'], config['min_episodes'], config['manual_crash']
PatienceValues == {0, 1}
MinEpisodesValues == {0, 2}
ManualCrashValues == {0, 3}
\* {:5.2f} pads a value below 10 with a blank, and then
\* re.match(r".+macrof1_([0-9]+)", file) finds no digit after "macrof1_"
NameHasNoMatch(file) == file.f1 < 10 * F1Scale
\* int(ep.group(1)): the digits before the decimal point
NameInt(file) == file.f1 \div F1Scale
\* the test `int(ep.group(1)) < macro_f1` that removes a best_model file
RemoveBest(file, f1) == NameInt(file) * F1Scale < f1
\* the test `int(ep.group(1)) <= episode` that removes a latest_model file
RemoveLatest(file) == file.episode <= episode

\* the end of range(init_episode, min(...))
StopEpisode ==
    Min(IF manual_crash > 0 THEN init_episode + manual_crash ELSE max_episodes + 1,
        max_episodes + 1)

\* the trainer variables at the head of the first episode
TrainInit ==
    /\ ops = 0
    /\ NoLoader
    /\ pc = "episode"
    /\ init_episode = 1
    /\ episode = init_episode
    /\ best_files = {}
    /\ latest_files = {}
    /\ trainer_pickle = NoPickle
    /\ outer = 0
    /\ rounds = 0
    /\ eval_every_n \in EvalEveryValues
    /\ macro_f1 = 0
    /\ best_macro_f1 = 0
    /\ curr_patience = patience
    /\ n_backward = 0
    /\ n_step = 0
    /\ n_zero = 0
    /\ bad_evals = 0

\* what no step of train() changes
Running ==
    /\ UNCHANGED <<n_inner, n_outer, clip_val, ops>>
    /\ UNCHANGED <<max_episodes, patience, min_episodes, manual_crash, init_episode>>
    /\ UNCHANGED loaderVars

\* the head of `for episode in range(...)`, with the early-stopping test
EpisodeHead ==
    /\ Running
    /\ UNCHANGED <<bad_evals, best_files, latest_files, trainer_pickle>>
    /\ pc = "episode"
    /\ pc' = IF episode >= StopEpisode THEN "done"
             ELSE IF curr_patience < 0 THEN "KeyboardInterrupt"
             ELSE "adapt"
    /\ outer' = 1
    /\ n_backward' = 0
    /\ UNCHANGED <<episode, rounds, eval_every_n, macro_f1, best_macro_f1, curr_patience,
                   n_step, n_zero>>
    /\ UNCHANGED modelVars

\* (an outer loop left after its first iteration)
OuterLoopDoneAtOnce(i) == TRUE
\* whether `for _ in range(config['n_outer'])` has run its last iteration
OuterLoopDone(i) == i >= n_outer

\* batch = next(dataloader); model.adapt(support_labels, support_input)
TrainAdapt ==
    /\ Running
    /\ UNCHANGED <<bad_evals, best_files, latest_files, trainer_pickle>>
    /\ pc = "adapt"
    /\ \E batch \in Batches, task_grads \in InnerGrads : Adapt(batch, task_grads)
    /\ pc' = "forward"
    /\ UNCHANGED <<episode, outer, rounds, eval_every_n, macro_f1, best_macro_f1,
                   curr_patience, n_backward, n_step, n_zero>>

\* logits = model(query_input); loss = model.lossfn(logits, query_labels)
TrainForward ==
    /\ Running
    /\ UNCHANGED <<bad_evals, best_files, latest_files, trainer_pickle>>
    /\ pc = "forward"
    /\ Forward
    /\ pc' = "backward"
    /\ UNCHANGED <<episode, outer, rounds, eval_every_n, macro_f1, best_macro_f1,
                   curr_patience, n_backward, n_step, n_zero>>

\* model.backward(loss), and the end of the outer loop's body
TrainBackward ==
    /\ Running
    /\ UNCHANGED <<bad_evals, best_files, latest_files, trainer_pickle>>
    /\ pc = "backward"
    /\ \E g_task \in TaskGradVecs, g_shared \in GradVecs : Backward(g_task, g_shared)
    /\ n_backward' = n_backward + 1
    /\ IF OuterLoopDone(outer)
       THEN pc' = "step" /\ outer' = outer
       ELSE pc' = "adapt" /\ outer' = outer + 1
    /\ UNCHANGED <<episode, rounds, eval_every_n, macro_f1, best_macro_f1, curr_patience,
                   n_step, n_zero>>

\* shared_optimizer.step(); shared_lr_schedule.step()
TrainStep ==
    /\ Running
    /\ UNCHANGED <<bad_evals, best_files, latest_files, trainer_pickle>>
    /\ pc = "step"
    /\ OptimizerStep
    /\ n_step' = n_step + 1
    /\ pc' = "zero_grad"
    /\ UNCHANGED <<episode, outer, rounds, eval_every_n, macro_f1, best_macro_f1,
                   curr_patience, n_backward, n_zero>>

\* model.model_shared.zero_grad(); model.model_task.zero_grad(); then the
\* test `episode % config['eval_every_n'] == 0`
TrainZeroGrad ==
    /\ Running
    /\ UNCHANGED <<bad_evals, best_files, latest_files, trainer_pickle>>
    /\ pc = "zero_grad"
    /\ ZeroGrads
    /\ n_zero' = n_zero + 1
    /\ rounds' = 0
    /\ IF episode % eval_every_n = 0
       THEN pc' = "eval_adapt" /\ episode' = episode
       ELSE pc' = "episode" /\ episode' = episode + 1
    /\ UNCHANGED <<outer, eval_every_n, macro_f1, best_macro_f1, curr_patience,
                   n_backward, n_step>>

\* meta_evaluate: next(dataloader); model.adapt(support_labels, support_text)
EvalAdapt ==
    /\ Running
    /\ UNCHANGED <<bad_evals, best_files, latest_files, trainer_pickle>>
    /\ pc = "eval_adapt"
    /\ \E batch \in Batches, task_grads \in InnerGrads : Adapt(batch, task_grads)
    /\ pc' = "eval_forward"
    /\ UNCHANGED <<episode, outer, rounds, eval_every_n, macro_f1, best_macro_f1,
                   curr_patience, n_backward, n_step, n_zero>>

\* meta_evaluate: logits = model(query_text) under torch.no_grad()
EvalForward ==
    /\ Running
    /\ UNCHANGED <<bad_evals, best_files, latest_files, trainer_pickle>>
    /\ pc = "eval_forward"
    /\ Forward
    /\ rounds' = rounds + 1
    /\ pc' = IF rounds + 1 < EvalRounds THEN "eval_adapt" ELSE "checkpoint"
    /\ UNCHANGED <<episode, outer, eval_every_n, macro_f1, best_macro_f1, curr_patience,
                   n_backward, n_step, n_zero>>

\* the return of meta_evaluate, the clean-up of the checkpoint directory and
\* the branch `if macro_f1 >= best_macro_f1`
Checkpoint ==
    /\ Running
    /\ pc = "checkpoint"
    /\ \E f1 \in F1Values :
         /\ macro_f1' = f1
         /\ LET old_best == {file \in best_files : RemoveBest(file, f1)}
                old_latest == {file \in latest_files : RemoveLatest(file)}
            IN
            IF \E file \in best_files : NameHasNoMatch(file)
            THEN \* ep is None: ep.group raises; os.listdir gives no order, so
                 \* any of the files to remove may be gone by then
                 /\ pc' = "AttributeError"
                 /\ \E gone \in SUBSET {file \in old_best : ~NameHasNoMatch(file)} :
                        best_files' = best_files \ gone
                 /\ \E gone \in SUBSET old_latest : latest_files' = latest_files \ gone
                 /\ op' = "clean_up"
                 /\ UNCHANGED <<best_macro_f1, curr_patience, bad_evals>>
                 /\ UNCHANGED <<model_shared, model_task, W_task, b_task, b, fwd,
                                adapted, accum, clipped, support_labels, grad_fn>>
            ELSE /\ pc' = "save_latest"
                 /\ latest_files' = latest_files \ old_latest
                 /\ IF f1 >= best_macro_f1
                    THEN /\ SaveBest
                         /\ best_files' = (best_files \ old_best) \cup {BestFile(episode, f1)}
                         /\ best_macro_f1' = f1
                         /\ curr_patience' = patience
                         /\ bad_evals' = 0
                    ELSE /\ best_files' = best_files \ old_best
                         /\ curr_patience' =
                                IF episode > min_episodes \/ manual_crash > 0
                                THEN curr_patience - 1 ELSE curr_patience
                         /\ bad_evals' = bad_evals + (curr_patience - curr_patience')
                         /\ best_macro_f1' = best_macro_f1
                         /\ op' = "no_best"
                         /\ UNCHANGED <<model_shared, model_task, W_task, b_task, b, fwd,
                                        adapted, accum, clipped, support_labels, grad_fn>>
    /\ UNCHANGED <<episode, outer, rounds, eval_every_n, n_backward, n_step, n_zero,
                   trainer_pickle>>

\* saving the latest model and the trainer state; the end of the loop body
TrainSaveLatest ==
    /\ Running
    /\ UNCHANGED bad_evals
    /\ pc = "save_latest"
    /\ SaveLatest
    /\ latest_files' = latest_files \cup {LatestFile(episode, macro_f1, model_shared.val)}
    /\ trainer_pickle' = Pickle(episode, macro_f1, best_macro_f1, curr_patience)
    /\ UNCHANGED best_files
    /\ pc' = "episode"
    /\ episode' = episode + 1
    /\ UNCHANGED <<outer, rounds, eval_every_n, macro_f1, best_macro_f1, curr_patience,
                   n_backward, n_step, n_zero>>

\* a run of train() on a freshly built model, patience 1 and no minimum,
\* evaluated every second episode
Init ==
    /\ ModelInit
    /\ max_episodes = MaxEpisodes
    /\ patience = 1
    /\ min_episodes = 0
    /\ manual_crash = 0
    /\ TrainInit
    /\ eval_every_n = 2

Next ==
    \/ EpisodeHead
    \/ TrainAdapt
    \/ TrainForward
    \/ TrainBackward
    \/ TrainStep
    \/ TrainZeroGrad
    \/ EvalAdapt
    \/ EvalForward
    \/ Checkpoint
    \/ TrainSaveLatest

Spec == Init /\ [][Next]_vars

\* the values of config['manual_crash'] of the restarted runs
RestartCrashValues == {1, 2}

\* train() run again on the same checkpoint directory with warm_restart on,
\* after a run that ended at its manual_crash limit: a new model is built,
\* the latest checkpoint and the trainer state are loaded if there are any
WarmRestart ==
    /\ pc = "done"
    /\ episode <= max_episodes
    /\ UNCHANGED <<n_inner, n_outer, clip_val, ops>>
    /\ UNCHANGED loaderVars
    /\ UNCHANGED <<max_episodes, patience, min_episodes, manual_crash, eval_every_n>>
    /\ UNCHANGED <<best_files, latest_files, trainer_pickle>>
    /\ model_task' = NoTask
    /\ W_task' = NoTensor
    /\ b_task' = NoTensor
    /\ b' = FALSE
    /\ fwd' = "none"
    /\ op' = "init"
    /\ adapted' = FALSE
    /\ accum' = [p \in Trainable |-> 0]
    /\ clipped' = FALSE
    /\ support_labels' = <<>>
    /\ grad_fn' = "None"
    /\ IF latest_files = {}
       THEN \* list.index(True) raises ValueError: no warm restart
            /\ model_shared' = NewEncoder
            /\ init_episode' = 1
            /\ best_macro_f1' = 0
            /\ curr_patience' = patience
            /\ UNCHANGED macro_f1
       ELSE /\ \E latest_checkpoint \in latest_files :
                 model_shared' = [NewEncoder EXCEPT !.val = latest_checkpoint.state_dict]
            /\ init_episode' = trainer_pickle.episode + 1
            /\ macro_f1' = trainer_pickle.macro_f1
            /\ best_macro_f1' = trainer_pickle.best_macro_f1
            /\ curr_patience' = trainer_pickle.curr_patience
    /\ pc' = "episode"
    /\ episode' = init_episode'
    /\ outer' = 0
    /\ rounds' = 0
    /\ n_backward' = 0
    /\ n_step' = 0
    /\ n_zero' = 0
    /\ bad_evals' = 0

\* runs of train() restarted until the episodes are through, on a model
\* without inner steps and clipping
InitRestart ==
    /\ ModelInit
    /\ n_inner = 0
    /\ n_outer = 1
    /\ clip_val = 0
    /\ max_episodes = MaxEpisodes
    /\ patience = 1
    /\ min_episodes = 0
    /\ manual_crash \in RestartCrashValues
    /\ TrainInit

NextRestart ==
    \/ EpisodeHead
    \/ TrainAdapt
    \/ TrainForward
    \/ TrainBackward
    \/ TrainStep
    \/ TrainZeroGrad
    \/ EvalAdapt
    \/ EvalForward
    \/ Checkpoint
    \/ TrainSaveLatest
    \/ WarmRestart

\* every run goes on while it can, and an ended run is started again
SpecRestart == InitRestart /\ [][NextRestart]_vars /\ WF_vars(NextRestart)

\* runs of train() over the early-stopping settings, one episode longer, on a
\* model without inner steps and clipping, evaluated after every episode
InitEarlyStop ==
    /\ ModelInit
    /\ n_inner = 0
    /\ n_outer = 1
    /\ clip_val = 0
    /\ max_episodes = MaxEpisodes + 1
    /\ patience \in PatienceValues
    /\ min_episodes \in MinEpisodesValues
    /\ manual_crash \in ManualCrashValues
    /\ TrainInit
    /\ eval_every_n = 1

SpecEarlyStop == InitEarlyStop /\ [][Next]_vars

-----------------------------------------------------------------------------
(* Properties of the samplers *)

\* how many examples of a returned list carry label c
CountLabel(list, c) == Cardinality({i \in 1..Len(list) : list[i].labels = c})
Texts(list) == {list[i].text : i \in 1..Len(list)}

\* every class of the dataset given to the loader holds at least 2k examples
AllClassesFull == \A c \in DOMAIN dataset : Len(dataset[c]) >= 2 * k

\* C1: on a StratifiedLoader whose classes all hold at least 2k examples,
\* every call of __next__, the second and later ones included, returns a
\* tuple with k support and k query examples of each class.
C1_WraparoundServesEveryCall ==
    (loader = "stratified" /\ calls >= 1 /\ AllClassesFull)
        => /\ out.kind = "tuple"
           /\ \A c \in DOMAIN dataset :
                CountLabel(out.support, c) = k /\ CountLabel(out.query, c) = k

\* C2: when some class holds fewer than 2k examples, __next__ raises
\* StopIteration and returns no tuple.
C2_ShortClassRaisesStopIteration ==
    (loader = "stratified" /\ calls >= 1 /\ ~AllClassesFull)
        => out.kind = "StopIteration"

\* C3: in every tuple either loader returns, no example is in both the
\* support set and the query set.
C3_SupportQueryDisjoint ==
    out.kind = "tuple" => Texts(out.support) \cap Texts(out.query) = {}

\* C3 witness: an adaptive batch with several examples on each side
C3_Witness ==
    /\ out.kind = "tuple"
    /\ Len(out.support) >= 2
    /\ Len(out.query) >= 2
    /\ loader = "adaptive"

\* C4: every tuple StratifiedLoader.__next__ returns holds exactly k support
\* examples of each class of the dataset.
C4_ExactlyKSupportPerClass ==
    (loader = "stratified" /\ out.kind = "tuple")
        => \A c \in DOMAIN dataset : CountLabel(out.support, c) = k

-----------------------------------------------------------------------------
(* Properties of the model object and of train() *)

SharedGrad(p) == model_shared.grad[p]
SharedNormSq == NormSq(model_shared.grad, Trainable)
TrainPcs == {"adapt", "forward", "backward"}

\* C5: forward() raises the 'no task-specific model' ValueError exactly when
\* no adapt() has completed since construction or since a checkpoint save
\* reset the task parameters, and returns logits otherwise; in those states a
\* task parameter is None.
C5_ForwardNeedsAdapt ==
    /\ ~adapted => (W_task.isNone \/ b_task.isNone)
    /\ adapted => (~W_task.isNone /\ ~b_task.isNone /\ ~model_task.isNone)
    /\ op = "forward" => fwd = (IF adapted THEN "logits" ELSE "ValueError")

\* C5 witness: forward() raised after the best-model save reset W_task (and
\* left b_task in place)
C5_Witness ==
    /\ op = "forward"
    /\ fwd = "ValueError"
    /\ W_task.isNone
    /\ ~b_task.isNone

\* the buffers equal the plain sum of the episode's outer gradients
BufferIsSum ==
    \A p \in Trainable : ~SharedGrad(p).isNone /\ SharedGrad(p).v = accum[p]

\* C6 (as claimed): when the n_outer backward() calls of an episode are done,
\* each trainable shared parameter's buffer equals the sum over the calls of
\* (g_task + g_shared) / n_outer, whatever clip_val and the gradients are.
C6_BufferIsSumAlways == pc = "step" => BufferIsSum

\* C6 (amended): the buffer equals that sum when clip_val <= 0 or no
\* backward() call of the episode rescaled the buffers.
C6_BufferIsSumUnlessClipped ==
    (pc = "step" /\ (clip_val <= 0 \/ ~clipped)) => BufferIsSum

\* C6 witness: two outer steps with clipping on that stayed within clip_val
C6_Witness ==
    /\ pc = "step"
    /\ clip_val > 0
    /\ ~clipped
    /\ n_outer = 2
    /\ n_backward = 2
    /\ \E p \in Trainable : accum[p] # 0

\* C7: after every backward() the global L2 norm of the trainable shared
\* parameters' buffers is at most clip_val when clip_val > 0; when
\* clip_val <= 0 the buffers hold the unclipped accumulation.
C7_NormWithinClipVal ==
    op = "backward" =>
        /\ clip_val > 0 => SharedNormSq <= clip_val * clip_val
        /\ clip_val <= 0 => BufferIsSum

\* C7 witness: the last backward() of a two-step episode, which clipped
C7_Witness ==
    /\ op = "backward"
    /\ clip_val > 0
    /\ clipped
    /\ n_outer = 2
    /\ n_backward = 2
    /\ SharedNormSq > 0

\* C8: the optimizer step and the zero-grad have each run once per finished
\* episode; the step comes after all n_outer backward() calls of its episode,
\* and the first backward() of an episode finds the shared buffers cleared.
C8_StepAndZeroGradOncePerEpisode ==
    /\ pc \in TrainPcs => (n_step = episode - init_episode /\ n_zero = episode - init_episode)
    /\ pc = "step" =>
          (n_backward = n_outer /\ n_step = episode - init_episode
           /\ n_zero = episode - init_episode)
    /\ pc = "zero_grad" =>
          (n_step = episode - init_episode + 1 /\ n_zero = episode - init_episode)
    /\ pc \in {"eval_adapt", "eval_forward", "checkpoint", "save_latest"} =>
          (n_step = episode - init_episode + 1 /\ n_zero = episode - init_episode + 1)
    /\ pc \in {"episode", "done", "KeyboardInterrupt"} =>
          (n_step = episode - init_episode /\ n_zero = episode - init_episode)
    /\ (pc \in TrainPcs /\ n_backward = 0) => \A p \in Params : Cleared(SharedGrad(p))

\* C8 witness: the first backward() of the second episode is about to run,
\* after an episode of two outer steps
C8_Witness ==
    /\ pc = "backward"
    /\ n_backward = 0
    /\ episode = 2
    /\ n_outer = 2
    /\ n_step = 1
    /\ model_shared.val # NewEncoder.val

\* C9: no adapt() and no forward(), in training or in meta_evaluate, changes
\* a value or a gradient buffer of the shared encoder.
C9_AdaptForwardKeepShared ==
    [][(pc \in {"adapt", "forward", "eval_adapt", "eval_forward"})
          => (model_shared' = model_shared)]_vars

\* C9 witness: an adapt() of meta_evaluate with inner steps has run on an
\* encoder the optimizer has moved
C9_Witness ==
    /\ pc = "eval_forward"
    /\ op = "adapt"
    /\ n_inner > 0
    /\ model_shared.val # NewEncoder.val
    /\ \E p \in Trainable : ~Cleared(model_task.grad[p])

\* the gradient buffers an adapt() leaves on the task model when its last
\* inner step got the gradient g
TaskGradAfter(g) ==
    LET stored == [p \in Params |-> IF p \in Trainable THEN Grad(g[p]) ELSE NoGrad]
    IN  IF clip_val > 0 THEN ClipGradNorm(stored, Trainable, clip_val) ELSE stored

\* C10: after every adapt() the task model holds the shared values of the
\* time of the call; its gradient buffers hold only what this call's inner
\* steps stored (nothing when n_inner = 0); W_task and b_task are the
\* prototype weights of this call's support set.
C10_AdaptStartsFresh ==
    op = "adapt" =>
        /\ ~model_task.isNone
        /\ model_task.val = model_shared.val
        /\ IF n_inner = 0
           THEN \A p \in Params : model_task.grad[p].isNone
           ELSE \E g \in TaskGradVecs : model_task.grad = TaskGradAfter(g)
        /\ \E batch \in Batches :
              LET init == GenerateClfWeights(batch.labels, batch.input)
              IN  W_task = Tensor(init.W_init) /\ b_task = Tensor(init.b_init)

\* C10 witness: an adapt() of the second episode, after the optimizer moved
\* the shared encoder away from the values the previous copy held
C10_Witness ==
    /\ op = "adapt"
    /\ pc = "forward"
    /\ episode = 2
    /\ model_shared.val # NewEncoder.val

-----------------------------------------------------------------------------
(* Properties of the task parameters *)

\* the classes of the support set of the last adapt(), ascending, and the
\* model inputs that went with its labels
SupportClasses == SortedSeq(Range(support_labels))
SupportInput == [j \in 1..Len(support_labels) |-> j]
\* the mean embedding of class number r under the encoder values val
ClassPrototype(val, r) ==
    MeanEmbedding(val, support_labels, SupportInput, SupportClasses[r])
\* W_task is twice, and b_task minus the norm of, the class prototypes
TaskParamsArePrototypes(val) ==
    /\ ~W_task.isNone
    /\ ~b_task.isNone
    /\ DOMAIN W_task.v = 1..Len(SupportClasses)
    /\ DOMAIN b_task.v = 1..Len(SupportClasses)
    /\ \A r \in 1..Len(SupportClasses) :
          /\ W_task.v[r] = 2 * ClassPrototype(val, r)
          /\ b_task.v[r] = -Abs(ClassPrototype(val, r))

\* C11: after every adapt() W_task has as many rows, and b_task as many
\* entries, as there are distinct label values in the support labels of that
\* call.
C11_RowsEqualSupportClasses ==
    op = "adapt" =>
        /\ Len(W_task.v) = Cardinality(Range(support_labels))
        /\ Len(b_task.v) = Cardinality(Range(support_labels))

\* C11 witness: an adapt() of the second episode on two examples of one class
C11_Witness ==
    /\ op = "adapt"
    /\ episode = 2
    /\ Len(support_labels) = 2
    /\ Cardinality(Range(support_labels)) = 1
    /\ Len(W_task.v) = 1

\* C12: with n_inner = 0, adapt() leaves W_task = 2 * prototype and
\* b_task = -||prototype|| per class, and the forward() that follows returns
\* logits.
C12_ZeroInnerStepsSetPrototypes ==
    n_inner = 0 =>
        /\ op = "adapt" => TaskParamsArePrototypes(model_shared.val)
        /\ (op = "forward" /\ adapted) => fwd = "logits"

\* C12 witness: a forward() that returned logits after an adapt() without
\* inner steps on two classes
C12_Witness ==
    /\ n_inner = 0
    /\ op = "forward"
    /\ fwd = "logits"
    /\ Len(W_task.v) = 2
    /\ W_task.v[1] # W_task.v[2]

\* C19: with n_inner >= 1, after adapt() the task copy still holds the shared
\* values, W_task and b_task still equal W_init and b_init, and the copy's
\* gradient buffers hold the (clipped) gradient of the last inner step.
C19_InnerStepsWriteOnlyGradients ==
    (op = "adapt" /\ n_inner >= 1) =>
        /\ model_task.val = model_shared.val
        /\ TaskParamsArePrototypes(model_task.val)
        /\ \E g \in TaskGradVecs : model_task.grad = TaskGradAfter(g)
        /\ \A p \in Params \ Trainable : model_task.grad[p].isNone

\* C19 witness: an adapt() with inner steps that stored a gradient on the
\* copy of an encoder the optimizer has moved
C19_Witness ==
    /\ op = "adapt"
    /\ n_inner >= 1
    /\ model_shared.val # NewEncoder.val
    /\ \E p \in Trainable : ~model_task.grad[p].isNone /\ model_task.grad[p].v # 0

\* C20 (as claimed): the prototypes behind W_init and b_init come from the
\* forward pass of the fresh copy model_task, so W_task and b_task depend on
\* the copy's parameters.
C20_PrototypesFromCopy == op = "adapt" => grad_fn = "model_task"

\* C20 (amended): the prototypes come from the forward pass of model_shared;
\* W_task and b_task depend on the shared parameters and have the values the
\* copy, equal in value at that moment, would give.
C20_PrototypesFromShared ==
    op = "adapt" =>
        /\ grad_fn = "model_shared"
        /\ TaskParamsArePrototypes(model_shared.val)
        /\ model_task.val = model_shared.val

\* C20 witness: an adapt() on an encoder the optimizer has moved, on two classes
C20_Witness ==
    /\ op = "adapt"
    /\ grad_fn = "model_shared"
    /\ model_shared.val # NewEncoder.val
    /\ Len(W_task.v) = 2

-----------------------------------------------------------------------------
(* Properties of the early stopping *)

TrainingPcs == {"adapt", "forward", "backward", "step", "zero_grad"}

\* C13: train() never ends by raising: when patience is exhausted it leaves
\* the episode loop and returns.
C13_PatienceStopsNormally == pc # "KeyboardInterrupt"

\* C15: no training episode runs once `patience` evaluations in a row have
\* come out below best_macro_f1 (patience >= 1, decrement active).
C15_StopsAfterPatienceEvals ==
    pc \in TrainingPcs => ~(patience >= 1 /\ bad_evals >= patience)

\* C16: an evaluation at an episode number <= min_episodes never lowers
\* curr_patience, whatever manual_crash is.
C16_NoDecrementBeforeMinEpisodes ==
    [][(pc = "checkpoint" /\ episode <= min_episodes)
          => (curr_patience' >= curr_patience)]_vars

-----------------------------------------------------------------------------
(* Further properties of the samplers *)

\* the classes that have an example in the returned query set
QueryLabels == {out.query[j].labels : j \in 1..Len(out.query)}
TotalClasses == Cardinality(DOMAIN dataset)

\* C14: whenever a __next__ call returns a query set in which a sampled class
\* has no example, the call has emitted a warning.
C14_EmptyQueryShareIsReported ==
    (out.kind = "tuple" /\ Cardinality(QueryLabels) < out.n_classes) => out.warned

\* C17: with more than 3 classes and subset_classes set, the values the
\* number of classes of an episode can take are 2 up to and including the
\* total; otherwise it is the total.
C17_NClassesUpToTotal ==
    (loader = "adaptive" /\ calls >= 1) =>
        /\ NClasses(DOMAIN dataset) =
              (IF TotalClasses > 3 /\ subset_classes THEN 2..TotalClasses ELSE {TotalClasses})
        /\ out.n_classes \in NClasses(DOMAIN dataset)

\* C18: every tuple AdaptiveNKShotLoader.__next__ returns holds at most
\* max_support_size support examples.
C18_SupportWithinMaxSupportSize ==
    (loader = "adaptive" /\ out.kind = "tuple") => Len(out.support) <= max_support_size

\* C18 witness: a returned support set that fills max_support_size = 4
C18_Witness ==
    /\ loader = "adaptive"
    /\ out.kind = "tuple"
    /\ max_support_size = 4
    /\ Len(out.support) = 4

-----------------------------------------------------------------------------
(* Properties of the label indexing *)

\* C21: after adapt(), for every label value j of the support set, row j of
\* W_task and entry j of b_task (counted from 0) exist and come from the
\* prototype of the class labelled j, whatever the label values are.
C21_RowOfLabelIsItsClass ==
    op = "adapt" =>
        \A j \in Range(support_labels) :
            LET prototype ==
                    MeanEmbedding(model_shared.val, support_labels, SupportInput, j)
            IN  /\ j + 1 \in DOMAIN W_task.v
                /\ j + 1 \in DOMAIN b_task.v
                /\ W_task.v[j + 1] = 2 * prototype
                /\ b_task.v[j + 1] = -Abs(prototype)

-----------------------------------------------------------------------------
(* Properties of the checkpoint directory and of warm restarts *)

\* C22: the clean-up of old checkpoint files never raises, and after every
\* evaluation step the directory holds a best_model file written with the
\* current best_macro_f1.
C22_BestModelKept ==
    /\ pc # "AttributeError"
    /\ op = "save_latest" => \E file \in best_files : file.f1 = best_macro_f1

\* the runs are through: the last one ended after episode max_episodes, or
\* stopped early
RunsFinished ==
    \/ pc = "done" /\ episode > max_episodes
    \/ pc = "KeyboardInterrupt"

\* C23: restarted again and again, train() eventually gets through episode
\* max_episodes or stops early, for every manual_crash > 0 and every
\* eval_every_n >= 1, and no run trains an episode above max_episodes.
C23_RestartsReachTheEnd ==
    /\ [](pc \in TrainingPcs => episode <= max_episodes)
    /\ <>RunsFinished

====
